---- MODULE Spec2Model ----
(***************************************************************************)
(* A model of the behaviours demonstrated by the demo-day notebooks:       *)
(*   - singleton gates (2023-07-13/1_SingletonGatesDemoDay.ipynb),          *)
(*   - the UnrollForLoops transpiler pass (the for-loop unrolling          *)
(*     notebook),                                                          *)
(*   - the initial point of a trainable model's fit with warm start        *)
(*     (2022-03-17/2-fix-vqc-training-with-warm-start.ipynb),              *)
(*   - the deprecation decorators (2022-09-29/3_deprecation_docs.ipynb),   *)
(*   - the DAG node classes (2021-08-19/1-dagnode-structure.ipynb),        *)
(*   - the evaluation modes (2021-09-30/2-evaluation_mode.ipynb),          *)
(*   - quantum kernel training (the quantum kernel training notebook).     *)
(* Each notebook is a specification of its own (SpecGate, SpecUnroll,      *)
(* SpecFit, SpecDeprecate, SpecDocstring, SpecDag, SpecEval, SpecQKT); the *)
(* variables of the other notebooks stay at their initial value.           *)
(***************************************************************************)
EXTENDS Integers, Sequences, FiniteSets, TLC

VARIABLES
    \* ---- singleton gates ----
    heap,       \* the gate objects alive, by identity 1..Len(heap)
    instance,   \* XGate._instance: the identity of the shared object, 0 for None
    ret,        \* the object the last call returned, 0 for none
    op,         \* the last call: [name, target, field, value]
    raised,     \* the exception the last call raised, "None" for none
    xresults,   \* every object a no-argument XGate() has returned
    qc,         \* qc.data: the operation (object identity) of each instruction
    iset,       \* the InstructionSet qc.x() returned last: an index of qc, 0 for none
    \* ---- UnrollForLoops ----
    body,       \* the loop body under construction (a sequence of instructions)
    circuit,    \* the circuit's top-level instructions
    max_target_depth,  \* the pass's max_target_depth, as last run
    out,        \* the circuit the pass returned
    upc,        \* "build" while the circuit is built, "ran" once the pass has run
    \* ---- TrainableModel ----
    warm_start,     \* self._warm_start
    fit_result,     \* self._fit_result: None or an OptimizerResult
    initial_point,  \* self._initial_point: None or a vector
    last_start,     \* the point the last fit started the optimizer from
    fits,           \* the number of fit calls made
    branch,         \* how the last fit chose its initial point
    fit_raised,     \* the exception the last fit raised, "None" for none
    \* ---- deprecation decorators: calls ----
    dummy,      \* d, the DummyClass instance: its fields arg1 and arg2
    call,       \* the last call of a decorated method: [func, kwargs]
    emitted,    \* the warnings the last call emitted, in order
    call_result, \* how the last call ended: [kind, value]
    \* ---- deprecation decorators: docstrings ----
    doc,        \* f.__doc__ as written: a sequence of lines
    deco,       \* the arguments of the decorator applied to f, None before
    new_doc,    \* f.__doc__ after the decorator, None for a None docstring
    doc_warned, \* the warnings the decorator emitted
    \* ---- DAG nodes ----
    dag_qc,     \* qc._data of the circuit: a sequence of instructions
    dag,        \* the DAGCircuit's nodes by node_id, None before circuit_to_dag
    yielded,    \* the nodes the topological_nodes() loop was given, in order
    \* ---- evaluation modes ----
    model_mode,      \* model.evaluation_mode of the HamiltonianModel
    rotating_frame,  \* whether model.rotating_frame was set
    rwa_mode,        \* the evaluation mode of rwa_model, None before it exists
    dis_mode,        \* dis_model.evaluation_mode, None before dis_model exists
    new_mode,        \* the argument of the last dis_model.set_evaluation_mode
    eval_raised,     \* the exception that call raised, "None" for none
    \* ---- quantum kernel training ----
    maxiter,    \* spsa_opt.maxiter
    spsa_k,     \* the optimizer iterations completed
    theta,      \* the trainable parameter, in tenths
    cb_data,    \* cb_qkt._data: five lists, one per callback argument
    qpc,        \* where the notebook is: "setup", "fit", "returned"
    qka_results,       \* the result of qkt.fit, None before it returns
    optimized_kernel,  \* the notebook's optimized_kernel, None before it is read
    qsvc        \* the kernel the QSVC was built with, None before

gateVars == <<heap, instance, ret, op, raised, xresults, qc, iset>>
unrollVars == <<body, circuit, max_target_depth, out, upc>>
fitVars == <<warm_start, fit_result, initial_point, last_start, fits, branch, fit_raised>>
depVars == <<dummy, call, emitted, call_result>>
docVars == <<doc, deco, new_doc, doc_warned>>
dagVars == <<dag_qc, dag, yielded>>
evalVars == <<model_mode, rotating_frame, rwa_mode, dis_mode, new_mode, eval_raised>>
qktVars == <<maxiter, spsa_k, theta, cb_data, qpc, qka_results, optimized_kernel, qsvc>>
vars == <<gateVars, unrollVars, fitVars, depVars, docVars, dagVars, evalVars, qktVars>>

\* Python's None and a present value, for an optional field.
None == <<>>
Some(v) == <<v>>

(***************************************************************************)
(* Singleton gates                                                         *)
(***************************************************************************)

\* Bounds of the gate model.
MaxObjs == 2
MaxData == 2

Labels == {"secret sauce", "other"}
Clbits == {"c0"}
CondValues == {0, 1}
Units == {"dt"}
Durations == {100}

\* The per-instance fields of a gate: label, condition, unit, duration.
Fields == {"label", "condition", "unit", "duration"}

\* A gate built with no per-instance state.
BlankGate == [label |-> None, condition |-> None, unit |-> None, duration |-> None]

\* c_if on a Clbit stores the value as a bool: c_if(Clbit(), 0) prints (Clbit, False).
Condition(clbit, val) == <<clbit, val # 0>>

\* The values an assignment to a field may carry.
FieldValues(f) ==
    CASE f = "label" -> Labels
      [] f = "condition" -> {Condition(c, v) : c \in Clbits, v \in CondValues}
      [] f = "unit" -> Units
      [] f = "duration" -> Durations

Objs == 1..Len(heap)

NoOp == [name |-> "none", target |-> 0, field |-> "none", value |-> None]
Call(n, t) == [name |-> n, target |-> t, field |-> "none", value |-> None]

\* gate.mutable: False on the shared instance, True on every other object.
Mutable(o) == o # instance

\* Before singletons: every XGate() made a new object in memory.
SharedAfterAlwaysNew(h, inst) ==
    [heap |-> Append(h, BlankGate), instance |-> Len(h) + 1]

\* The heap and the shared instance after a no-argument construction, and the
\* object it returns: the shared instance, created on first use.
SharedAfter(h, inst) ==
    IF inst = 0
        THEN [heap |-> Append(h, BlankGate), instance |-> Len(h) + 1]
        ELSE [heap |-> h, instance |-> inst]

\* XGate(): returns the one shared instance of the class.
XGateCall ==
    /\ instance # 0 \/ Len(heap) < MaxObjs
    /\ LET s == SharedAfter(heap, instance) IN
        /\ Len(s.heap) <= MaxObjs
        /\ heap' = s.heap
        /\ instance' = s.instance
        /\ ret' = s.instance
        /\ xresults' = xresults \cup {s.instance}
    /\ op' = Call("XGate", 0)
    /\ raised' = "None"
    /\ UNCHANGED <<qc, iset, unrollVars, fitVars, depVars, docVars, dagVars, evalVars, qktVars>>

\* A labelled construction that hands back the shared object and lets
\* __init__ store the label on it.
XGateLabelOnShared(L) ==
    /\ instance # 0
    /\ heap' = [heap EXCEPT ![instance].label = Some(L)]
    /\ ret' = instance
    /\ op' = [name |-> "XGateLabel", target |-> 0, field |-> "label", value |-> Some(L)]
    /\ raised' = "None"
    /\ UNCHANGED <<instance, xresults, qc, iset, unrollVars, fitVars, depVars, docVars, dagVars, evalVars, qktVars>>

\* XGate(label=L): a new object of its own that carries the label.
XGateLabel(L) ==
    /\ Len(heap) < MaxObjs
    /\ heap' = Append(heap, [BlankGate EXCEPT !.label = Some(L)])
    /\ ret' = Len(heap) + 1
    /\ op' = [name |-> "XGateLabel", target |-> 0, field |-> "label", value |-> Some(L)]
    /\ raised' = "None"
    /\ UNCHANGED <<instance, xresults, qc, iset, unrollVars, fitVars, depVars, docVars, dagVars, evalVars, qktVars>>

\* An assignment that skips the check of the shared instance.
SetAttrUnchecked(o, f, v) ==
    /\ heap' = [heap EXCEPT ![o][f] = Some(v)]
    /\ raised' = "None"
    /\ ret' = 0
    /\ op' = [name |-> "setattr", target |-> o, field |-> f, value |-> Some(v)]
    /\ UNCHANGED <<instance, xresults, qc, iset, unrollVars, fitVars, depVars, docVars, dagVars, evalVars, qktVars>>

\* gate.<field> = v: NotImplementedError on the shared instance, which is
\* left as it was; a plain assignment on any other object.
SetAttr(o, f, v) ==
    /\ IF ~Mutable(o)
        THEN /\ raised' = "NotImplementedError"
             /\ heap' = heap
        ELSE /\ raised' = "None"
             /\ heap' = [heap EXCEPT ![o][f] = Some(v)]
    /\ ret' = 0
    /\ op' = [name |-> "setattr", target |-> o, field |-> f, value |-> Some(v)]
    /\ UNCHANGED <<instance, xresults, qc, iset, unrollVars, fitVars, depVars, docVars, dagVars, evalVars, qktVars>>

\* to_mutable that hands back the object it was called on.
ToMutableSelf(o) ==
    /\ ret' = o
    /\ op' = Call("to_mutable", o)
    /\ raised' = "None"
    /\ UNCHANGED <<heap, instance, xresults, qc, iset, unrollVars, fitVars, depVars, docVars, dagVars, evalVars, qktVars>>

\* gate.to_mutable(): a new, mutable object with the fields of gate.
ToMutable(o) ==
    /\ Len(heap) < MaxObjs
    /\ heap' = Append(heap, heap[o])
    /\ ret' = Len(heap) + 1
    /\ op' = Call("to_mutable", o)
    /\ raised' = "None"
    /\ UNCHANGED <<instance, xresults, qc, iset, unrollVars, fitVars, depVars, docVars, dagVars, evalVars, qktVars>>

\* c_if as a plain instruction has it: the condition is stored on the object
\* itself, which is returned.
CIfResultInPlace(h, o, clbit, val) ==
    [heap |-> [h EXCEPT ![o].condition = Some(Condition(clbit, val))], ret |-> o]

\* o.c_if(clbit, val): always a new object, which carries the condition (and
\* the other fields of o); the heap after the call and the object returned.
CIfResult(h, o, clbit, val) ==
    [heap |-> Append(h, [h[o] EXCEPT !.condition = Some(Condition(clbit, val))]),
     ret |-> Len(h) + 1]

\* gate.c_if(clbit, val)
CIf(o, clbit, val) ==
    /\ Len(heap) < MaxObjs
    /\ LET r == CIfResult(heap, o, clbit, val) IN
        /\ heap' = r.heap
        /\ ret' = r.ret
    /\ op' = [name |-> "c_if", target |-> o, field |-> "condition",
              value |-> Some(Condition(clbit, val))]
    /\ raised' = "None"
    /\ UNCHANGED <<instance, xresults, qc, iset, unrollVars, fitVars, depVars, docVars, dagVars, evalVars, qktVars>>

\* qc.x(q): appends XGate(), the shared instance, to the circuit and returns
\* the instruction set holding the new instruction.
QcX ==
    /\ Len(qc) < MaxData
    /\ instance # 0 \/ Len(heap) < MaxObjs
    /\ LET s == SharedAfter(heap, instance) IN
        /\ Len(s.heap) <= MaxObjs
        /\ heap' = s.heap
        /\ instance' = s.instance
        /\ xresults' = xresults \cup {s.instance}
        /\ qc' = Append(qc, s.instance)
    /\ iset' = Len(qc) + 1
    /\ ret' = 0
    /\ op' = Call("qc.x", 0)
    /\ raised' = "None"
    /\ UNCHANGED <<unrollVars, fitVars, depVars, docVars, dagVars, evalVars, qktVars>>

\* qc.x(q).c_if(clbit, val): the instruction's operation is replaced in the
\* circuit by the gate its c_if returns.
QcCIf(clbit, val) ==
    /\ iset # 0
    /\ Len(heap) < MaxObjs
    /\ LET r == CIfResult(heap, qc[iset], clbit, val) IN
        /\ heap' = r.heap
        /\ qc' = [qc EXCEPT ![iset] = r.ret]
    /\ ret' = 0
    /\ op' = [name |-> "qc.c_if", target |-> qc[iset], field |-> "condition",
              value |-> Some(Condition(clbit, val))]
    /\ raised' = "None"
    /\ UNCHANGED <<instance, xresults, iset, unrollVars, fitVars, depVars, docVars, dagVars, evalVars, qktVars>>

NextGate ==
    \/ XGateCall
    \/ \E L \in Labels : XGateLabel(L)
    \/ \E o \in Objs : \E f \in Fields : \E v \in FieldValues(f) : SetAttr(o, f, v)
    \/ \E o \in Objs : ToMutable(o)
    \/ \E o \in Objs : \E c \in Clbits : \E v \in CondValues : CIf(o, c, v)
    \/ QcX
    \/ \E c \in Clbits : \E v \in CondValues : QcCIf(c, v)

(***************************************************************************)
(* Singleton gates: the properties                                         *)
(***************************************************************************)

\* C1: every no-argument XGate() returns the one shared instance: whatever
\* calls are made in between (labelled constructions, to_mutable, c_if,
\* rejected writes), any two results of XGate() are the identical object.
C1_OneSharedInstance ==
    /\ \A a \in xresults : \A b \in xresults : a = b
    /\ op.name = "XGate" => ret = instance /\ ret \in xresults

\* XGate() has returned the shared instance again after another object was
\* made in between.
C1_Witness ==
    /\ op.name = "XGate"
    /\ ret = instance
    /\ \E o \in Objs : o > instance /\ instance # 0

\* C2: a write of label, condition, unit or duration on the shared instance
\* raises NotImplementedError and changes nothing: the heap and the shared
\* instance are as before, the field still unset.
C2_WriteOnSharedRejected ==
    [][(op'.name = "setattr" /\ instance # 0 /\ op'.target = instance)
         => /\ raised' = "NotImplementedError"
            /\ heap' = heap
            /\ instance' = instance
            /\ heap'[instance'][op'.field] = None]_vars

\* A label write on the shared instance has just been rejected.
C2_Witness ==
    /\ op.name = "setattr"
    /\ op.field = "label"
    /\ instance # 0
    /\ op.target = instance
    /\ raised = "NotImplementedError"
    /\ heap[instance] = BlankGate

\* C3: XGate(label=L) returns an object whose label is L and which is not
\* the shared instance; no object that carries a label is the shared
\* instance.
C3_LabelledIsNotShared ==
    /\ op.name = "XGateLabel" => heap[ret].label = op.value /\ ret # instance
    /\ \A o \in Objs : heap[o].label # None => o # instance

\* A labelled gate has been made while the shared instance exists.
C3_Witness ==
    /\ op.name = "XGateLabel"
    /\ instance # 0
    /\ heap[ret].label = Some("secret sauce")
    /\ heap[instance].label = None

\* C4: the shared instance is not mutable; to_mutable() on it returns another
\* object, which is mutable; a write on an object other than the shared
\* instance succeeds and stores the value; the shared instance keeps no label.
C4_ToMutableCopy ==
    /\ instance # 0 => ~Mutable(instance)
    /\ (op.name = "to_mutable" /\ op.target = instance)
          => ret # instance /\ ret \in Objs /\ Mutable(ret)
    /\ (op.name = "setattr" /\ op.target # instance)
          => raised = "None" /\ heap[op.target][op.field] = op.value
    /\ instance # 0 => heap[instance].label = None

\* to_mutable() has been called on the shared instance.
C4_Witness ==
    /\ op.name = "to_mutable"
    /\ instance # 0
    /\ op.target = instance
    /\ ret # instance

\* C5: c_if returns a new object that carries the condition and is neither
\* the gate it was called on nor the shared instance; after qc.x(q).c_if the
\* circuit's operation is such an object; the shared instance never has a
\* condition.
C5_CIfReturnsNewObject ==
    /\ op.name = "c_if"
          => ret # op.target /\ ret # instance /\ heap[ret].condition = op.value
    /\ op.name = "qc.c_if"
          => /\ qc[iset] # op.target
             /\ qc[iset] # instance
             /\ heap[qc[iset]].condition = op.value
    /\ instance # 0 => heap[instance].condition = None

\* c_if(Clbit(), 0) has been called on the shared instance: the result
\* carries (clbit, False).
C5_Witness ==
    /\ op.name = "c_if"
    /\ instance # 0
    /\ op.target = instance
    /\ heap[ret].condition = Some(<<"c0", FALSE>>)

(***************************************************************************)
(* UnrollForLoops                                                          *)
(***************************************************************************)

\* Bounds of the circuits built.
MaxBody == 2
MaxTop == 2
MaxStop == 10

\* UnrollForLoops() with no argument: no depth limit.
NoLimit == -1

Steps == {1, 2}
TargetDepths == {NoLimit, 2, 4}
\* The body's own qubits, the circuit qubits a top-level gate may act on, and
\* the circuit qubits a loop may be placed on.
BodyQubits == {0, 1}
TopQubits == {0, 1}
QArgs == {<<1, 2>>, <<2, 1>>}
CArgs == <<1>>

\* Python's range(start, stop, step) for a positive step, as a sequence.
Range(start, stop, step) ==
    LET n == IF stop <= start THEN 0 ELSE (stop - start + step - 1) \div step
    IN [i \in 1..n |-> start + (i - 1) * step]

\* A gate angle: k times the loop parameter, or the number k.
LoopParam(k) == [loop |-> TRUE, k |-> k]
Number(k) == [loop |-> FALSE, k |-> k]

Instr(n, p, qs, cs) ==
    [name |-> n, param |-> p, qubits |-> qs, clbits |-> cs,
     indexset |-> <<>>, blocks |-> <<>>]

\* break_loop and continue_loop span every bit of the body they are in.
AllBodyQubits == <<0, 1>>
AllBodyClbits == <<0>>
BreakLoop == Instr("break_loop", Number(0), AllBodyQubits, AllBodyClbits)
ContinueLoop == Instr("continue_loop", Number(0), AllBodyQubits, AllBodyClbits)
\* qc.break_loop().c_if(0, True): if (c[0] == 1) { break; }
IfBreak ==
    [Instr("if_else", Number(0), AllBodyQubits, AllBodyClbits)
        EXCEPT !.blocks = <<BreakLoop>>]
\* circuit.for_loop(indexset, loop_parameter, body, qargs, cargs)
ForLoopOp(indexset, b, qargs, cargs) ==
    [name |-> "for_loop", param |-> Number(0), qubits |-> qargs, clbits |-> cargs,
     indexset |-> indexset, blocks |-> b]

Max(S) == CHOOSE x \in S : \A y \in S : y <= x

\* The wires (qubits and clbits) an instruction is on.
WiresOf(i) ==
    {<<"q", i.qubits[j]>> : j \in DOMAIN i.qubits}
        \cup {<<"c", i.clbits[j]>> : j \in DOMAIN i.clbits}

AllWires(b) == UNION {WiresOf(b[i]) : i \in DOMAIN b}

\* The level of every wire after the first n instructions of b.
RECURSIVE Levels(_, _)
Levels(b, n) ==
    IF n = 0 THEN [w \in AllWires(b) |-> 0]
    ELSE LET prev == Levels(b, n - 1)
             ws == WiresOf(b[n])
             l == 1 + Max({prev[w] : w \in ws})
         IN [w \in AllWires(b) |-> IF w \in ws THEN l ELSE prev[w]]

\* body.depth(): the longest chain of instructions on the body's wires.
Depth(b) ==
    IF b = <<>> THEN 0
    ELSE LET lv == Levels(b, Len(b)) IN Max({lv[w] : w \in AllWires(b)})

\* A break or continue directly in the body only.
ContainsContinueOrBreakTopLevel(b) ==
    \E i \in DOMAIN b : b[i].name \in {"break_loop", "continue_loop"}

\* Whether the body holds a break or a continue, at any nesting.
RECURSIVE ContainsContinueOrBreak(_)
ContainsContinueOrBreak(b) ==
    \E i \in DOMAIN b :
        \/ b[i].name \in {"break_loop", "continue_loop"}
        \/ ContainsContinueOrBreak(b[i].blocks)

\* The depth of the body alone against the limit.
ExceedsDepthBodyOnly(d, loop) ==
    d > 0 /\ Depth(loop.blocks) > d

\* Whether unrolling the loop gives more depth than the limit d allows.
ExceedsDepth(d, loop) ==
    d > 0 /\ Len(loop.indexset) * Depth(loop.blocks) > d

\* bind_parameters({loop_parameter: v}) on one instruction.
Bind(i, v) ==
    IF i.param.loop THEN [i EXCEPT !.param = Number(i.param.k * v)] ELSE i

\* An instruction of the body placed on the loop's qubits and clbits.
MapBits(i, qargs, cargs) ==
    [i EXCEPT !.qubits = [j \in DOMAIN @ |-> qargs[@[j] + 1]],
              !.clbits = [j \in DOMAIN @ |-> cargs[@[j] + 1]]]

\* The body for one value of the loop parameter, on the loop's bits.
BoundBody(loop, v) ==
    [j \in DOMAIN loop.blocks |->
        MapBits(Bind(loop.blocks[j], v), loop.qubits, loop.clbits)]

\* The bodies composed from the last value of the index set to the first.
RECURSIVE ExpandReversed(_, _)
ExpandReversed(loop, j) ==
    IF j > Len(loop.indexset) THEN <<>>
    ELSE ExpandReversed(loop, j + 1) \o BoundBody(loop, loop.indexset[j])

\* The bodies for the index set's values j, j+1, ..., composed in that order.
RECURSIVE Expand(_, _)
Expand(loop, j) ==
    IF j > Len(loop.indexset) THEN <<>>
    ELSE BoundBody(loop, loop.indexset[j]) \o Expand(loop, j + 1)

\* Whether the pass leaves the loop as it is.
Skipped(d, loop) ==
    ExceedsDepth(d, loop) \/ ContainsContinueOrBreak(loop.blocks)

\* The instructions from position n on, every for-loop that is not skipped
\* replaced by its unrolled body.
RECURSIVE Substituted(_, _, _)
Substituted(d, circ, n) ==
    IF n > Len(circ) THEN <<>>
    ELSE (IF circ[n].name = "for_loop" /\ ~Skipped(d, circ[n])
            THEN Expand(circ[n], 1)
            ELSE <<circ[n]>>) \o Substituted(d, circ, n + 1)

\* Whether the sequence a is before b in lexicographic order.
RECURSIVE LexLess(_, _)
LexLess(a, b) ==
    IF b = <<>> THEN FALSE
    ELSE IF a = <<>> THEN TRUE
    ELSE IF Head(a) # Head(b) THEN Head(a) < Head(b)
    ELSE LexLess(Tail(a), Tail(b))

\* The circuit read back from the graph of the instructions s[i], i in R:
\* of the instructions no earlier one shares a wire with, the one whose
\* qubits come first is emitted next.
RECURSIVE TopologicalOps(_, _)
TopologicalOps(s, R) ==
    IF R = {} THEN <<>>
    ELSE LET ready == {i \in R : \A j \in R :
                          j < i => WiresOf(s[j]) \cap WiresOf(s[i]) = {}}
             i == CHOOSE i \in ready : \A j \in ready :
                      \/ LexLess(s[i].qubits, s[j].qubits)
                      \/ (s[i].qubits = s[j].qubits /\ i <= j)
         IN <<s[i]>> \o TopologicalOps(s, R \ {i})

\* UnrollForLoops(max_target_depth=d)(circ)
UnrollForLoops(d, circ) ==
    LET s == Substituted(d, circ, 1) IN TopologicalOps(s, DOMAIN s)

HasForLoop(c) == \E i \in DOMAIN c : c[i].name = "for_loop"

\* body.rx(loop_parameter, q), body.cx(0, 1), and the loop's break and continue.
BodyAppend(i) ==
    /\ upc = "build"
    /\ ~HasForLoop(circuit)
    /\ Len(body) < MaxBody
    /\ body' = Append(body, i)
    /\ UNCHANGED <<circuit, max_target_depth, out, upc, gateVars, fitVars, depVars, docVars, dagVars, evalVars, qktVars>>

BodyRx(q) == BodyAppend(Instr("rx", LoopParam(1), <<q>>, <<>>))
BodyCx == BodyAppend(Instr("cx", Number(0), <<0, 1>>, <<>>))
BodyBreakIf == BodyAppend(IfBreak)
BodyContinue == BodyAppend(ContinueLoop)

\* circuit.rx(1, q)
CircuitRx(q) ==
    /\ upc = "build"
    /\ Len(circuit) < MaxTop
    /\ circuit' = Append(circuit, Instr("rx", Number(1), <<q>>, <<>>))
    /\ UNCHANGED <<body, max_target_depth, out, upc, gateVars, fitVars, depVars, docVars, dagVars, evalVars, qktVars>>

\* circuit.for_loop(range(0, stop, step), loop_parameter, body, qargs, cargs)
ForLoop(stop, step, qargs) ==
    /\ upc = "build"
    /\ ~HasForLoop(circuit)
    /\ Len(circuit) < MaxTop
    /\ circuit' = Append(circuit, ForLoopOp(Range(0, stop, step), body, qargs, CArgs))
    /\ UNCHANGED <<body, max_target_depth, out, upc, gateVars, fitVars, depVars, docVars, dagVars, evalVars, qktVars>>

\* out = UnrollForLoops(max_target_depth=d)(circuit)
RunPass(d) ==
    /\ upc = "build"
    /\ max_target_depth' = d
    /\ out' = UnrollForLoops(d, circuit)
    /\ upc' = "ran"
    /\ UNCHANGED <<body, circuit, gateVars, fitVars, depVars, docVars, dagVars, evalVars, qktVars>>

NextUnroll ==
    \/ \E q \in BodyQubits : BodyRx(q)
    \/ BodyCx
    \/ BodyBreakIf
    \/ BodyContinue
    \/ \E q \in TopQubits : CircuitRx(q)
    \/ \E stop \in 0..MaxStop : \E step \in Steps : \E qargs \in QArgs :
          ForLoop(stop, step, qargs)
    \/ \E d \in TargetDepths : RunPass(d)

(***************************************************************************)
(* UnrollForLoops: the properties                                          *)
(***************************************************************************)

\* The instructions of s on wire w, in order.
OnWire(s, w) == SelectSeq(s, LAMBDA i : w \in WiresOf(i))

\* Equality of circuits: the same instructions in the same order on every wire.
SameCircuit(a, b) ==
    \A w \in AllWires(a) \cup AllWires(b) : OnWire(a, w) = OnWire(b, w)

\* The circuit's for-loop and what is before and after it.
LoopAt == CHOOSE i \in DOMAIN circuit : circuit[i].name = "for_loop"
TheLoop == circuit[LoopAt]
BeforeLoop == SubSeq(circuit, 1, LoopAt - 1)
AfterLoop == SubSeq(circuit, LoopAt + 1, Len(circuit))

\* The loop's body has a break or a continue, directly or under an if.
BodyBreaksOrContinues ==
    \E i \in DOMAIN TheLoop.blocks :
        LET b == TheLoop.blocks[i] IN
            \/ b.name \in {"break_loop", "continue_loop"}
            \/ \E j \in DOMAIN b.blocks :
                  b.blocks[j].name \in {"break_loop", "continue_loop"}

\* The body's instruction b as it is expected in the output for the value v.
Instance(b, v) ==
    [name |-> b.name,
     param |-> IF b.param.loop THEN Number(b.param.k * v) ELSE b.param,
     qubits |-> [j \in DOMAIN b.qubits |-> TheLoop.qubits[b.qubits[j] + 1]],
     clbits |-> [j \in DOMAIN b.clbits |-> TheLoop.clbits[b.clbits[j] + 1]],
     indexset |-> <<>>, blocks |-> b.blocks]

\* On wire w the output is: what was before the loop, then for the values
\* v1, ..., vn of the index set in order the body's instructions on w bound
\* to that value, then what was after the loop.
UnrolledOnWire(w) ==
    LET pre == OnWire(BeforeLoop, w)
        post == OnWire(AfterLoop, w)
        onw == SelectSeq(TheLoop.blocks, LAMBDA b : w \in WiresOf(Instance(b, 0)))
        m == Len(onw)
        n == Len(TheLoop.indexset)
        got == OnWire(out, w)
    IN /\ Len(got) = Len(pre) + n * m + Len(post)
       /\ \A i \in 1..Len(pre) : got[i] = pre[i]
       /\ \A k \in 1..n : \A i \in 1..m :
             got[Len(pre) + (k - 1) * m + i] = Instance(onw[i], TheLoop.indexset[k])
       /\ \A i \in 1..Len(post) : got[Len(pre) + n * m + i] = post[i]

\* C6: with no depth limit, a for-loop with no break or continue is replaced
\* by its body once for every value of the index set, in index-set order,
\* the loop parameter bound to the value: the output has no for-loop, and on
\* every wire the body's gates appear as the sequence for v1, v2, ..., vn.
C6_UnrolledInIndexOrder ==
    (/\ upc = "ran"
     /\ max_target_depth = NoLimit
     /\ HasForLoop(circuit)
     /\ ~BodyBreaksOrContinues)
        => /\ ~HasForLoop(out)
           /\ \A w \in AllWires(circuit) \cup AllWires(out) : UnrolledOnWire(w)

\* The loop over range(0, 10, 2) with rx(foo) on both body qubits has been
\* unrolled: circuit qubit 1 carries rx(0), rx(2), rx(4), rx(6), rx(8).
C6_Witness ==
    /\ upc = "ran"
    /\ max_target_depth = NoLimit
    /\ HasForLoop(circuit)
    /\ TheLoop.indexset = <<0, 2, 4, 6, 8>>
    /\ Len(TheLoop.blocks) = 2
    /\ \A i \in 1..2 : TheLoop.blocks[i].name = "rx"
    /\ TheLoop.blocks[1].qubits # TheLoop.blocks[2].qubits
    /\ LET on1 == OnWire(out, <<"q", 1>>) IN
          /\ Len(on1) = 5
          /\ \A k \in 1..5 : on1[k].name = "rx" /\ on1[k].param = Number(2 * (k - 1))

\* C7: with max_target_depth = d, a for-loop whose unrolling would give more
\* depth than d (the depth of the bodies for v1, ..., vn put one after the
\* other) is left unchanged: the output is the input circuit, with the same
\* for-loop; with no limit the same loop (no break or continue in it) is
\* unrolled.
C7_DepthLimitKeepsLoop ==
    /\ (/\ upc = "ran"
        /\ HasForLoop(circuit)
        /\ max_target_depth > 0
        /\ Depth(Expand(TheLoop, 1)) > max_target_depth)
          => /\ SameCircuit(out, circuit)
             /\ Len(out) = Len(circuit)
             /\ \E i \in DOMAIN out : out[i] = TheLoop
    /\ (/\ upc = "ran"
        /\ HasForLoop(circuit)
        /\ max_target_depth = NoLimit
        /\ ~BodyBreaksOrContinues)
          => ~HasForLoop(out)

\* A loop of 5 iterations over a body of depth 1 has been run through the
\* pass with max_target_depth = 4 and is still there.
C7_Witness ==
    /\ upc = "ran"
    /\ max_target_depth = 4
    /\ HasForLoop(circuit)
    /\ Len(TheLoop.indexset) = 5
    /\ Depth(TheLoop.blocks) = 1
    /\ ~BodyBreaksOrContinues
    /\ \E i \in DOMAIN out : out[i] = TheLoop

\* C8: a for-loop whose body has a break or a continue is skipped, whatever
\* the depth limit: the circuit returned is the input circuit, and its loop,
\* with its range and its conditional break, is the loop of the input.
C8_BreakOrContinueSkipped ==
    (/\ upc = "ran"
     /\ HasForLoop(circuit)
     /\ BodyBreaksOrContinues)
        => /\ SameCircuit(out, circuit)
           /\ Len(out) = Len(circuit)
           /\ \E i \in DOMAIN out : out[i] = TheLoop

\* The loop over range(5) with rx(i) and a conditional break has been run
\* through the pass with no depth limit.
C8_Witness ==
    /\ upc = "ran"
    /\ max_target_depth = NoLimit
    /\ HasForLoop(circuit)
    /\ TheLoop.indexset = <<0, 1, 2, 3, 4>>
    /\ Len(TheLoop.blocks) = 2
    /\ TheLoop.blocks[1].name = "rx"
    /\ TheLoop.blocks[2] = IfBreak
    /\ \E i \in DOMAIN out : out[i] = TheLoop

(***************************************************************************)
(* TrainableModel: the initial point of a fit                              *)
(***************************************************************************)

\* Bounds of the fit model: the fit calls made, and the network's num_weights.
MaxFits == 3
NumWeights == 2

Coords == {0, 1}
\* The vectors of length n.
Points(n) == [1..n -> Coords]
\* The initial points a caller may set: of the network's length or not.
UserPoints == Points(NumWeights) \cup Points(1)

\* self._fit_result[0]: an OptimizerResult is not subscriptable.
FinalPointSubscript(result) == [raised |-> "TypeError", point |-> None]

\* self._fit_result.x: the final point of the minimization.
FinalPoint(result) == [raised |-> "None", point |-> Some(result.x)]

\* _choose_initial_point without its warm-start branch.
ChooseInitialPointCold(ws, fr, ip, rnd) ==
    IF ip = None
        THEN [raised |-> "None", point |-> Some(rnd), branch |-> "random"]
        ELSE [raised |-> "None", point |-> ip, branch |-> "set"]

\* _choose_initial_point: the value self._initial_point takes and is returned,
\* rnd being algorithm_globals.random.random(num_weights).
ChooseInitialPoint(ws, fr, ip, rnd) ==
    IF ws /\ fr # None
        THEN LET f == FinalPoint(fr[1])
             IN [raised |-> f.raised, point |-> f.point, branch |-> "warm"]
    ELSE IF ip = None
        THEN [raised |-> "None", point |-> Some(rnd), branch |-> "random"]
        ELSE [raised |-> "None", point |-> ip, branch |-> "set"]

\* model.warm_start = b (VQC(warm_start=b))
SetWarmStart(b) ==
    /\ warm_start # b
    /\ warm_start' = b
    /\ UNCHANGED <<fit_result, initial_point, last_start, fits, branch, fit_raised,
                   gateVars, unrollVars, depVars, docVars, dagVars, evalVars, qktVars>>

\* model.initial_point = p
SetInitialPoint(p) ==
    /\ initial_point' = Some(p)
    /\ UNCHANGED <<warm_start, fit_result, last_start, fits, branch, fit_raised,
                   gateVars, unrollVars, depVars, docVars, dagVars, evalVars, qktVars>>

\* model.fit(X, y): the optimizer starts from the chosen initial point and
\* its result, whose final point is x, is saved as the fit result.
Fit(rnd, x) ==
    /\ fits < MaxFits
    /\ fits' = fits + 1
    /\ LET c == ChooseInitialPoint(warm_start, fit_result, initial_point, rnd) IN
        /\ branch' = c.branch
        /\ fit_raised' = c.raised
        /\ IF c.raised # "None"
            THEN UNCHANGED <<fit_result, initial_point, last_start>>
            ELSE /\ initial_point' = c.point
                 /\ last_start' = c.point
                 /\ Len(x) = Len(c.point[1])
                 /\ fit_result' = Some([x |-> x])
    /\ UNCHANGED <<warm_start, gateVars, unrollVars, depVars, docVars, dagVars, evalVars, qktVars>>

NextFit ==
    \/ \E b \in BOOLEAN : SetWarmStart(b)
    \/ \E p \in UserPoints : SetInitialPoint(p)
    \/ \E rnd \in Points(NumWeights) : \E x \in UserPoints : Fit(rnd, x)

(***************************************************************************)
(* TrainableModel: the properties                                          *)
(***************************************************************************)

\* C9: the point a fit starts from: with warm_start set and a previous fit
\* result, the final point x of that result; otherwise, with no initial
\* point set, a vector of length num_weights; otherwise the initial point
\* that was set, unchanged. The point is kept as the model's initial point.
C9_InitialPointOfFit ==
    [][fits' = fits + 1
         => /\ IF warm_start /\ fit_result # None
                  THEN last_start' = Some(fit_result[1].x)
               ELSE IF initial_point = None
                  THEN last_start' # None /\ Len(last_start'[1]) = NumWeights
               ELSE last_start' = initial_point
            /\ initial_point' = last_start']_vars

\* A second fit with warm_start set has started from the final point of the
\* first, which differs from the point the first fit started from.
C9_Witness ==
    /\ fits = 2
    /\ warm_start
    /\ branch = "warm"
    /\ fit_raised = "None"
    /\ last_start = Some(<<1, 0>>)
    /\ fit_result = Some([x |-> <<1, 1>>])

\* C10: with warm_start set, every fit of a sequence of fits completes
\* without an error and saves its result, and a fit that follows another
\* starts from the final point of the fit before it.
C10_WarmStartFitsComplete ==
    [][(fits' = fits + 1 /\ warm_start)
         => /\ fit_raised' = "None"
            /\ fit_result' # None
            /\ Len(fit_result'[1].x) = Len(last_start'[1])
            /\ fit_result # None => last_start' = Some(fit_result[1].x)]_vars

\* Three fits have been made with warm_start set, the last from a warm start.
C10_Witness ==
    /\ fits = MaxFits
    /\ warm_start
    /\ branch = "warm"
    /\ fit_raised = "None"
    /\ fit_result # None

(***************************************************************************)
(* Deprecation decorators: calls of decorated methods                      *)
(* (2022-09-29/3_deprecation_docs.ipynb)                                   *)
(***************************************************************************)

\* The longest list given as arg2.
MaxList == 2

\* The lists [], [1], [1, 2], ...
Lists == {[i \in 1..n |-> i] : n \in 0..MaxList}
Arg1Values == {None, Some(0), Some(1)}
Arg2Values == {None} \cup {Some(l) : l \in Lists}
\* An index argument: an int, in or out of the range of the list.
Indexes == {Some(i) : i \in -1..(MaxList + 1)}
KwValues == {None, Some(0), Some(1)}

\* DummyClass.__init__: the object is its two fields.
DummyClass(arg1, arg2) == [arg1 |-> arg1, arg2 |-> arg2]

\* How a call ends: it returns a value (None or an int) or raises.
Return(v) == [kind |-> "return", value |-> v, exc |-> "None"]
Raise(e) == [kind |-> "raise", value |-> None, exc |-> e]

\* seq[i] of Python: a negative index counts from the end.
Subscript(seq, i) ==
    IF seq = None \/ i = None THEN Raise("TypeError")
    ELSE LET l == seq[1]
             n == i[1]
         IN  IF n >= 0 /\ n < Len(l) THEN Return(Some(l[n + 1]))
             ELSE IF n < 0 /\ -n <= Len(l) THEN Return(Some(l[Len(l) + n + 1]))
             ELSE Raise("IndexError")

\* The body of DummyClass.foo_deprecated, without its decorator. The name
\* QiskitError is not imported by the notebook, so raising it is a NameError.
foo_deprecated(self, index_arg2) ==
    IF self.arg2 = None THEN Raise("TypeError")
    ELSE IF Len(self.arg2[1]) < index_arg2[1] THEN Raise("NameError")
    ELSE Subscript(self.arg2, index_arg2)

\* The body of DummyClass.bar_with_deprecated_arg, without its decorator.
bar_with_deprecated_arg(self, if_arg1, index_arg2, other_if_arg1) ==
    IF other_if_arg1 = self.arg1 \/ if_arg1 = self.arg1
    THEN Subscript(self.arg2, index_arg2)
    ELSE Return(None)

\* A warning: its category and the pieces of its message.
Warning(category, message) == [category |-> category, message |-> message]

FooMsg ==
    "The DummyClass.foo() method is being deprecated. Use the DummyClass.some_othermethod()"

\* The wrapper deprecate_function(msg, since=...) puts around a function:
\* it warns, then ends as the function ends.
DeprecateFunctionDropsResult(msg, outcome) ==
    [emitted |-> <<Warning("DeprecationWarning", <<msg>>)>>,
     result |-> Return(None)]

DeprecateFunction(msg, outcome) ==
    [emitted |-> <<Warning("DeprecationWarning", <<msg>>)>>,
     result |-> outcome]

\* Keyword arguments are a set of <<name, value>> pairs.
KwNames == {"if_arg1", "index_arg2", "other_if_arg1"}
Keys(kwargs) == {p[1] : p \in kwargs}
Get(kwargs, name) ==
    IF name \in Keys(kwargs) THEN (CHOOSE p \in kwargs : p[1] = name)[2] ELSE None
KwargMap == [old |-> "if_arg1", new |-> "other_if_arg1"]

\* The warnings of deprecate_arguments(kwarg_map) for a call's kwargs.
RenameWarningsOnNew(func_name, kwargs, kwarg_map) ==
    IF kwarg_map.new \in Keys(kwargs)
    THEN <<Warning("DeprecationWarning",
                   <<func_name, "keyword argument", kwarg_map.old,
                     "is deprecated and replaced with", kwarg_map.new>>)>>
    ELSE <<>>

RenameWarnings(func_name, kwargs, kwarg_map) ==
    IF kwarg_map.old \in Keys(kwargs)
    THEN <<Warning("DeprecationWarning",
                   <<func_name, "keyword argument", kwarg_map.old,
                     "is deprecated and replaced with", kwarg_map.new>>)>>
    ELSE <<>>

\* The kwargs the wrapped function is called with: old is passed on as new.
RenameKwargs(kwargs, kwarg_map) ==
    {<<IF p[1] = kwarg_map.old THEN kwarg_map.new ELSE p[1], p[2]>> : p \in kwargs}

\* The calls the notebook's cells make: at most one of the old and the new
\* keyword, with or without index_arg2.
KwargSets ==
    {a \cup b :
        a \in {{}} \cup {{<<n, v>>} : n \in {"if_arg1", "other_if_arg1"}, v \in KwValues},
        b \in {{}} \cup {{<<"index_arg2", i>>} : i \in Indexes \cup {None}}}

NoCall == [func |-> "none", self |-> DummyClass(None, None), args |-> <<>>, kwargs |-> {}]

\* d = DummyClass(arg1, arg2)
NewDummyClass(arg1, arg2) ==
    /\ dummy' = DummyClass(arg1, arg2)
    /\ UNCHANGED <<call, emitted, call_result>>
    /\ UNCHANGED <<gateVars, unrollVars, fitVars, docVars, dagVars, evalVars, qktVars>>

\* d.foo_deprecated(index_arg2)
FooDeprecated(index_arg2) ==
    LET w == DeprecateFunction(FooMsg, foo_deprecated(dummy, index_arg2))
    IN  /\ call' = [func |-> "foo_deprecated", self |-> dummy,
                    args |-> <<index_arg2>>, kwargs |-> {}]
        /\ emitted' = w.emitted
        /\ call_result' = w.result
        /\ UNCHANGED dummy
        /\ UNCHANGED <<gateVars, unrollVars, fitVars, docVars, dagVars, evalVars, qktVars>>

\* d.bar_with_deprecated_arg(**kwargs)
BarWithDeprecatedArg(kwargs) ==
    LET renamed == RenameKwargs(kwargs, KwargMap)
    IN  /\ call' = [func |-> "bar_with_deprecated_arg", self |-> dummy,
                    args |-> <<>>, kwargs |-> kwargs]
        /\ emitted' = RenameWarnings("bar_with_deprecated_arg", kwargs, KwargMap)
        /\ call_result' = bar_with_deprecated_arg(dummy, Get(renamed, "if_arg1"),
                                             Get(renamed, "index_arg2"),
                                             Get(renamed, "other_if_arg1"))
        /\ UNCHANGED dummy
        /\ UNCHANGED <<gateVars, unrollVars, fitVars, docVars, dagVars, evalVars, qktVars>>

NextDeprecate ==
    \/ \E arg1 \in Arg1Values, arg2 \in Arg2Values : NewDummyClass(arg1, arg2)
    \/ \E i \in Indexes : FooDeprecated(i)
    \/ \E kwargs \in KwargSets : BarWithDeprecatedArg(kwargs)

\* C11: a call of foo_deprecated, which deprecate_function(msg, since=...)
\* decorates, emits one DeprecationWarning carrying msg and ends as the
\* undecorated function ends for the same arguments: the same return value
\* (arg2[0] for d = DummyClass(1, [1, 2]) and index 0), or the same exception.
C11_WarnsAndReturnsAsUndecorated ==
    call.func = "foo_deprecated"
        => /\ emitted = <<Warning("DeprecationWarning", <<FooMsg>>)>>
           /\ call_result = foo_deprecated(call.self, call.args[1])
           /\ (call.self = DummyClass(Some(1), Some(<<1, 2>>)) /\ call.args[1] = Some(0)
                  => call_result = Return(Some(1)))

\* d = DummyClass(1, [1, 2]); d.foo_deprecated(0) has warned and returned 1.
C11_Witness ==
    /\ call.func = "foo_deprecated"
    /\ call.self = DummyClass(Some(1), Some(<<1, 2>>))
    /\ call.args = <<Some(0)>>
    /\ Len(emitted) = 1
    /\ call_result.kind = "return"
    /\ call_result.value = Some(1)

\* The message names the argument.
Names(message, name) == \E i \in DOMAIN message : message[i] = name

MaxDocLines == 6

\* The indentation of a docstring's lines after the first.
DocIndent == 8

\* A line: its indentation and its text without it, as a sequence of
\* pieces (a backquote is written as a quote); a line of white space only
\* has no text.
Line(indent, text) == [indent |-> indent, text |-> text]
Blank == Line(0, <<>>)
IsBlank(l) == l.text = <<>>

SectionNames == {"Args:", "Returns:", "Raises:"}
IsSection(l) == Len(l.text) = 1 /\ l.text[1] \in SectionNames

Prose == {"Normal docstring", "Here are more details."}
Entries == {"index_arg2: 'index_arg2' description"}
Messages == {"deprecation message", FooMsg}
Versions == {"1.2.3", "0.22.0.dev0+427a334"}

\* The docstring of DummyClass.foo_deprecated.
FooDoc ==
    << Line(0, <<"A multi-line">>),
       Line(DocIndent, <<"docstring.">>),
       Blank,
       Line(DocIndent, <<"Here are more details.">>),
       Blank,
       Line(DocIndent, <<"Args:">>),
       Line(DocIndent + 4, <<"index_arg2: 'index_arg2' description">>),
       Blank,
       Line(DocIndent, <<"Returns:">>),
       Line(DocIndent + 4, <<"int: returns 'arg2[index_arg2]'">>),
       Blank,
       Line(DocIndent, <<"Raises:">>),
       Line(DocIndent + 4, <<"QiskitError: if 'len(self.arg2) < index_arg2'">>),
       Line(DocIndent, <<>>) >>

\* The docstring the notebook prints for foo_deprecated.
FooDocPrinted ==
    << Line(0, <<"A multi-line">>),
       Line(DocIndent, <<"docstring.">>),
       Blank,
       Line(DocIndent, <<"Here are more details.">>),
       Blank,
       Line(DocIndent, <<".. deprecated::", "1.2.3">>),
       Line(DocIndent + 2, <<FooMsg>>),
       Blank,
       Line(DocIndent, <<"Args:">>),
       Line(DocIndent + 4, <<"index_arg2: 'index_arg2' description">>),
       Blank,
       Line(DocIndent, <<"Returns:">>),
       Line(DocIndent + 4, <<"int: returns 'arg2[index_arg2]'">>),
       Blank,
       Line(DocIndent, <<"Raises:">>),
       Line(DocIndent + 4, <<"QiskitError: if 'len(self.arg2) < index_arg2'">>),
       Line(DocIndent, <<>>) >>

\* The index of the first section header, 0 when there is none.
FirstSection(lines) ==
    IF \E i \in DOMAIN lines : IsSection(lines[i])
    THEN CHOOSE i \in DOMAIN lines :
            IsSection(lines[i]) /\ \A j \in 1..(i - 1) : ~IsSection(lines[j])
    ELSE 0

\* The indentation of the docstring: the least one of the lines with text
\* after the first line, 0 when there is no such line.
MinIndent(lines) ==
    LET later == {i \in DOMAIN lines : i > 1 /\ ~IsBlank(lines[i])}
    IN  IF later = {} THEN 0
        ELSE CHOOSE n \in {lines[i].indent : i \in later} :
                \A i \in later : n <= lines[i].indent

\* The two lines ".. deprecated:: version" and the message under it.
DeprecatedBlock(indent, version, msg) ==
    << Line(indent, <<".. deprecated::", version>>), Line(indent + 2, <<msg>>) >>

\* The docstring with the block added after every line.
ExtendDocstringAtEnd(lines, version, msg) ==
    lines \o <<Blank>> \o DeprecatedBlock(MinIndent(lines), version, msg)

\* The docstring with the block added: before the first section header,
\* or after the last line when there is no section.
ExtendDocstring(lines, version, msg) ==
    LET p == FirstSection(lines)
        block == DeprecatedBlock(MinIndent(lines), version, msg)
    IN  IF p = 0 THEN lines \o <<Blank>> \o block
        ELSE SubSeq(lines, 1, p - 1) \o block \o <<Blank>> \o SubSeq(lines, p, Len(lines))

\* The lines that may follow in a docstring laid out as the notebook's are:
\* paragraphs, then sections of entries, one blank line between them, and
\* a last line of indentation only after the sections.
NextLines(lines) ==
    IF lines = <<>> THEN {Line(0, <<t>>) : t \in Prose}
    ELSE LET last == lines[Len(lines)]
             sections == {Line(DocIndent, <<s>>) : s \in {"Args:", "Returns:"}}
             prose == {Line(DocIndent, <<t>>) : t \in Prose}
             entries == {Line(DocIndent + 4, <<e>>) : e \in Entries}
         IN  IF IsBlank(last)
             THEN IF last.indent > 0 THEN {}
                  ELSE IF FirstSection(lines) = 0 THEN sections \cup prose
                  ELSE sections
             ELSE IF IsSection(last) THEN entries
             ELSE IF FirstSection(lines) = 0 THEN {Blank} \cup prose
             ELSE {Blank, Line(DocIndent, <<>>)} \cup entries

\* def f(): """..."""  one more line of the docstring
DocAppend(l) ==
    /\ deco = None
    /\ Len(doc) < MaxDocLines
    /\ l \in NextLines(doc)
    /\ doc' = Append(doc, l)
    /\ UNCHANGED <<deco, new_doc, doc_warned>>
    /\ UNCHANGED <<gateVars, unrollVars, fitVars, depVars, dagVars, evalVars, qktVars>>

\* def foo_deprecated(self, index_arg2): """A multi-line ..."""
DocFoo ==
    /\ deco = None
    /\ doc = <<>>
    /\ doc' = FooDoc
    /\ UNCHANGED <<deco, new_doc, doc_warned>>
    /\ UNCHANGED <<gateVars, unrollVars, fitVars, depVars, dagVars, evalVars, qktVars>>

\* deprecate_function(msg, modify_docstring=modify, since=since)(f)
Decorate(msg, modify_docstring, since) ==
    /\ deco = None
    /\ doc # <<>>
    /\ modify_docstring \/ since # None
    /\ deco' = Some([msg |-> msg, modify_docstring |-> modify_docstring, since |-> since])
    /\ new_doc' = IF ~modify_docstring THEN None
                  ELSE IF since = None THEN Some(doc)
                  ELSE Some(ExtendDocstring(doc, since[1], msg))
    /\ doc_warned' = IF modify_docstring /\ since = None
                     THEN <<Warning("UserWarning",
                                    <<"Modifying the docstring needs a version. Add parameter 'since' with it.">>)>>
                     ELSE <<>>
    /\ UNCHANGED doc
    /\ UNCHANGED <<gateVars, unrollVars, fitVars, depVars, dagVars, evalVars, qktVars>>

NextDocstring ==
    \/ \E l \in NextLines(doc) : DocAppend(l)
    \/ DocFoo
    \/ \E msg \in Messages, modify_docstring \in BOOLEAN,
          since \in {None} \cup {Some(v) : v \in Versions} :
            Decorate(msg, modify_docstring, since)

\* f was decorated by deprecate_function(msg, since=V), its docstring to be
\* modified (the default).
DecoratedSince == deco # None /\ deco[1].modify_docstring /\ deco[1].since # None

\* The place of the line ".. deprecated:: V" in the new docstring.
BlockAt(j) ==
    /\ j \in 1..(Len(new_doc[1]) - 1)
    /\ new_doc[1][j].text = <<".. deprecated::", deco[1].since[1]>>
    /\ new_doc[1][j + 1].text = <<deco[1].msg>>

\* Every line of a is in b, in the order of a.
RECURSIVE IsSubsequence(_, _)
IsSubsequence(a, b) ==
    IF a = <<>> THEN TRUE
    ELSE IF b = <<>> THEN FALSE
    ELSE IF Head(a) = Head(b) THEN IsSubsequence(Tail(a), Tail(b))
    ELSE IsSubsequence(a, Tail(b))

\* C13: deprecate_function(msg, since=V) adds the line ".. deprecated:: V"
\* followed by msg to the docstring, once: with only blank lines between it
\* and the first section header when the docstring has sections, as the last
\* lines when it has none; and every line of the original docstring is in
\* the new one, in the original order.
C13_BlockBeforeFirstSection ==
    DecoratedSince
        => /\ new_doc # None
           /\ \E j \in DOMAIN new_doc[1] :
                /\ BlockAt(j)
                /\ \A i \in DOMAIN new_doc[1] : BlockAt(i) => i = j
                /\ LET p == FirstSection(doc)
                       q == FirstSection(new_doc[1])
                   IN  IF p = 0 THEN j + 1 = Len(new_doc[1])
                       ELSE /\ j + 1 < q
                            /\ q = p + (Len(new_doc[1]) - Len(doc))
                            /\ \A i \in (j + 2)..(q - 1) : IsBlank(new_doc[1][i])
           /\ IsSubsequence(doc, new_doc[1])

\* The docstring of foo_deprecated after deprecate_function(..., since="1.2.3")
\* is the one the notebook prints.
C13_Witness ==
    /\ DecoratedSince
    /\ doc = FooDoc
    /\ deco[1].msg = FooMsg
    /\ deco[1].since = Some("1.2.3")
    /\ new_doc = Some(FooDocPrinted)

(***************************************************************************)
(* DAG nodes (2021-08-19/1-dagnode-structure.ipynb)                        *)
(***************************************************************************)

\* The most operations put on the circuit, and on the graph.
MaxDagOps == 3

\* qc = QuantumCircuit(2, 1)
NumQubits == 2
NumClbits == 1

Qubit(i) == [register |-> "q", index |-> i]
Clbit(i) == [register |-> "c", index |-> i]
DagQubits == {Qubit(i) : i \in 0..(NumQubits - 1)}
DagClbits == {Clbit(i) : i \in 0..(NumClbits - 1)}

\* An entry of qc._data: the operation with its qubits and clbits.
Instruction(name, qargs, cargs) == [name |-> name, qargs |-> qargs, cargs |-> cargs]
DagInstructions ==
    {Instruction(g, <<q>>, <<>>) : g \in {"x", "h"}, q \in DagQubits}
    \cup {Instruction("cx", <<p[1], p[2]>>, <<>>) :
             p \in {pair \in DagQubits \X DagQubits : pair[1] # pair[2]}}
    \cup {Instruction("measure", <<q>>, <<c>>) : q \in DagQubits, c \in DagClbits}

\* The node classes and their attributes; sort_key is str(qargs) for an
\* operation, here the qubits' indices, and str([]) for a wire's end.
DAGInNode(wire) == [class |-> "DAGInNode", wire |-> wire, sort_key |-> <<>>]
DAGOutNode(wire) == [class |-> "DAGOutNode", wire |-> wire, sort_key |-> <<>>]
DAGOpNode(operation, qargs, cargs) ==
    [class |-> "DAGOpNode", op |-> operation, qargs |-> qargs, cargs |-> cargs,
     sort_key |-> [i \in DOMAIN qargs |-> qargs[i].index]]

\* The node of the previous state: one class, told apart by its type.
DAGNodeOfTypeOp(operation, qargs, cargs) ==
    [class |-> "DAGNode", type |-> "op", op |-> operation, qargs |-> qargs, cargs |-> cargs,
     sort_key |-> [i \in DOMAIN qargs |-> qargs[i].index]]

\* isinstance(node, cls): every node class has DAGNode as its parent.
IsInstance(node, cls) == cls \in {node.class, "DAGNode"}

\* DAGCircuit._add_wire: the wire's input and output node.
AddWire(nodes, wire) == nodes \o <<DAGInNode(wire), DAGOutNode(wire)>>

\* DAGCircuit._add_op_node
AddOpNodePre6567(nodes, i) == Append(nodes, DAGNodeOfTypeOp(i.name, i.qargs, i.cargs))

AddOpNode(nodes, i) == Append(nodes, DAGOpNode(i.name, i.qargs, i.cargs))

RECURSIVE AddWires(_, _), AddOpNodes(_, _)
AddWires(nodes, wires) ==
    IF wires = <<>> THEN nodes ELSE AddWires(AddWire(nodes, Head(wires)), Tail(wires))
AddOpNodes(nodes, data) ==
    IF data = <<>> THEN nodes ELSE AddOpNodes(AddOpNode(nodes, Head(data)), Tail(data))

\* circuit_to_dag(qc): the qubits' wires, the clbits' wires, then the
\* operations in the order of qc._data.
CircuitToDag(data) ==
    AddOpNodes(AddWires(<<>>, [i \in 1..NumQubits |-> Qubit(i - 1)]
                              \o [i \in 1..NumClbits |-> Clbit(i - 1)]), data)

\* The wires a node is on.
NodeWires(n) ==
    IF "wire" \in DOMAIN n /\ n.class # "DAGNode" THEN {n.wire}
    ELSE {n.qargs[i] : i \in DOMAIN n.qargs} \cup {n.cargs[i] : i \in DOMAIN n.cargs}

\* Node j is before node i on a wire they share: a wire runs from its
\* input node through the operations, in the order they were added, to its
\* output node.
Before(nodes, j, i) ==
    /\ j # i
    /\ NodeWires(nodes[j]) \cap NodeWires(nodes[i]) # {}
    /\ \/ nodes[j].class = "DAGInNode"
       \/ nodes[i].class = "DAGOutNode"
       \/ /\ nodes[j].class \notin {"DAGInNode", "DAGOutNode"}
          /\ nodes[i].class \notin {"DAGInNode", "DAGOutNode"}
          /\ j < i

\* The order of two sort keys as strings: "[Qubit(...)]" is before "[]".
KeyLess(a, b) == a # <<>> /\ (b = <<>> \/ LexLess(a, b))

\* DAGCircuit.topological_nodes(): of the nodes of R with no node of R
\* before them, the one with the least sort key comes next, the one with
\* the least node_id among equal keys.
RECURSIVE TopologicalNodes(_, _)
TopologicalNodes(nodes, R) ==
    IF R = {} THEN <<>>
    ELSE LET ready == {i \in R : \A j \in R : ~Before(nodes, j, i)}
             i == CHOOSE i \in ready : \A j \in ready :
                      \/ KeyLess(nodes[i].sort_key, nodes[j].sort_key)
                      \/ (nodes[i].sort_key = nodes[j].sort_key /\ i <= j)
         IN  <<nodes[i]>> \o TopologicalNodes(nodes, R \ {i})

\* qc.x(1), qc.h(0), qc.cx(0, 1), ...
DagQcAppend(i) ==
    /\ dag = None
    /\ Len(dag_qc) < MaxDagOps
    /\ dag_qc' = Append(dag_qc, i)
    /\ UNCHANGED <<dag, yielded>>
    /\ UNCHANGED <<gateVars, unrollVars, fitVars, depVars, docVars, evalVars, qktVars>>

\* dag = circuit_to_dag(qc)
DagCircuitToDag ==
    /\ dag = None
    /\ dag' = Some(CircuitToDag(dag_qc))
    /\ UNCHANGED <<dag_qc, yielded>>
    /\ UNCHANGED <<gateVars, unrollVars, fitVars, depVars, docVars, evalVars, qktVars>>

\* dag.apply_operation_back(op, qargs, cargs)
ApplyOperationBack(i) ==
    /\ dag # None
    /\ Len(dag[1]) < 2 * (NumQubits + NumClbits) + MaxDagOps
    /\ dag' = Some(AddOpNode(dag[1], i))
    /\ UNCHANGED <<dag_qc, yielded>>
    /\ UNCHANGED <<gateVars, unrollVars, fitVars, depVars, docVars, evalVars, qktVars>>

\* for node in dag.topological_nodes(): ...
DagTopologicalNodes ==
    /\ dag # None
    /\ yielded' = TopologicalNodes(dag[1], DOMAIN dag[1])
    /\ UNCHANGED <<dag_qc, dag>>
    /\ UNCHANGED <<gateVars, unrollVars, fitVars, depVars, docVars, evalVars, qktVars>>

NextDag ==
    \/ \E i \in DagInstructions : DagQcAppend(i)
    \/ DagCircuitToDag
    \/ \E i \in DagInstructions : ApplyOperationBack(i)
    \/ DagTopologicalNodes

NodeClasses == {"DAGInNode", "DAGOpNode", "DAGOutNode"}

LindbladModes == {"dense", "dense_vectorized", "sparse"}
HamiltonianModes == {"dense", "sparse"}
RequestedModes == LindbladModes \cup {"sparse_vectorized", "lazy"}

\* HamiltonianModel.set_evaluation_mode used for a LindbladModel.
SetEvaluationModeOfHamiltonian(current, mode) ==
    IF mode \in HamiltonianModes
    THEN [mode |-> mode, raised |-> "None"]
    ELSE [mode |-> current, raised |-> "NotImplementedError"]

\* LindbladModel.set_evaluation_mode(new_mode): the mode after the call and
\* the exception raised.
SetEvaluationMode(current, mode) ==
    IF mode \in LindbladModes
    THEN [mode |-> mode, raised |-> "None"]
    ELSE [mode |-> current, raised |-> "NotImplementedError"]

\* model.set_evaluation_mode("sparse")
ModelSetEvaluationMode(mode) ==
    /\ model_mode' = mode
    /\ UNCHANGED <<rotating_frame, rwa_mode, dis_mode, new_mode, eval_raised>>
    /\ UNCHANGED <<gateVars, unrollVars, fitVars, depVars, docVars, dagVars, qktVars>>

\* model.rotating_frame = np.array([1,-1])
SetRotatingFrame ==
    /\ rotating_frame' = TRUE
    /\ UNCHANGED <<model_mode, rwa_mode, dis_mode, new_mode, eval_raised>>
    /\ UNCHANGED <<gateVars, unrollVars, fitVars, depVars, docVars, dagVars, qktVars>>

\* rwa_model = rotating_wave_approximation(model, cutoff_freq=1/4): the
\* approximation keeps the evaluation mode.
RotatingWaveApproximation ==
    /\ rwa_mode' = Some(model_mode)
    /\ UNCHANGED <<model_mode, rotating_frame, dis_mode, new_mode, eval_raised>>
    /\ UNCHANGED <<gateVars, unrollVars, fitVars, depVars, docVars, dagVars, qktVars>>

\* dis_model = LindbladModel.from_hamiltonian(model, ..., evaluation_mode=mode)
FromHamiltonian(mode) ==
    /\ dis_mode' = Some(mode)
    /\ new_mode' = None
    /\ eval_raised' = "None"
    /\ UNCHANGED <<model_mode, rotating_frame, rwa_mode>>
    /\ UNCHANGED <<gateVars, unrollVars, fitVars, depVars, docVars, dagVars, qktVars>>

\* dis_model.set_evaluation_mode(mode)
DisSetEvaluationMode(mode) ==
    /\ dis_mode # None
    /\ LET r == SetEvaluationMode(dis_mode[1], mode)
       IN  /\ dis_mode' = Some(r.mode)
           /\ eval_raised' = r.raised
    /\ new_mode' = Some(mode)
    /\ UNCHANGED <<model_mode, rotating_frame, rwa_mode>>
    /\ UNCHANGED <<gateVars, unrollVars, fitVars, depVars, docVars, dagVars, qktVars>>

NextEval ==
    \/ \E mode \in HamiltonianModes : ModelSetEvaluationMode(mode)
    \/ SetRotatingFrame
    \/ RotatingWaveApproximation
    \/ \E mode \in LindbladModes : FromHamiltonian(mode)
    \/ \E mode \in RequestedModes : DisSetEvaluationMode(mode)

\* C15: dis_model.set_evaluation_mode(new_mode) raises NotImplementedError
\* when new_mode is none of 'dense', 'dense_vectorized' and 'sparse', and
\* for each of these three it raises nothing and the model is in that mode.
C15_OnlyThreeModesAccepted ==
    new_mode # None
        => IF new_mode[1] \in {"dense", "dense_vectorized", "sparse"}
           THEN eval_raised = "None" /\ dis_mode = new_mode
           ELSE eval_raised = "NotImplementedError"

\* A mode outside the three was asked of a dense model and was refused.
C15_Witness ==
    /\ new_mode = Some("sparse_vectorized")
    /\ eval_raised = "NotImplementedError"
    /\ dis_mode = Some("dense")

(***************************************************************************)
(* Quantum kernel training (the quantum kernel training notebook)          *)
(***************************************************************************)

\* The largest maxiter given to SPSA.
MaxIter == 4

\* The directions a step moves the parameter in, and the losses reported.
Deltas == {-1, 1}
Losses == {0, 1}

\* cb_qkt = QKTCallback(): five empty lists.
NoCallbackData == <<<<>>, <<>>, <<>>, <<>>, <<>>>>

\* QKTCallback.callback(x0, x1, x2, x3, x4): each argument is appended to
\* its list.
Callback(data, args) == [i \in 1..5 |-> Append(data[i], args[i])]

\* The iterations of SPSA.minimize: for k in range(1, maxiter + 1).
SpsaRangeShort(n) == 1..(n - 1)

SpsaRange(n) == 1..n

\* spsa_opt = SPSA(maxiter=n, callback=cb_qkt.callback, ...) and
\* qkt = QuantumKernelTrainer(..., initial_point=[0.1])
NewSPSA(n) ==
    /\ qpc = "setup"
    /\ maxiter' = n
    /\ cb_data' = NoCallbackData
    /\ theta' = 1
    /\ UNCHANGED <<spsa_k, qpc, qka_results, optimized_kernel, qsvc>>
    /\ UNCHANGED <<gateVars, unrollVars, fitVars, depVars, docVars, dagVars, evalVars>>

\* qkt.fit(X_train, y_train) is called: the optimizer starts.
QktFit ==
    /\ qpc = "setup"
    /\ qpc' = "fit"
    /\ spsa_k' = 0
    /\ UNCHANGED <<maxiter, theta, cb_data, qka_results, optimized_kernel, qsvc>>
    /\ UNCHANGED <<gateVars, unrollVars, fitVars, depVars, docVars, dagVars, evalVars>>

\* One iteration of the optimizer: two evaluations for the gradient, the
\* step, one evaluation of the loss at the new point, and the callback.
SpsaIterate(delta, loss) ==
    /\ qpc = "fit"
    /\ spsa_k + 1 \in SpsaRange(maxiter)
    /\ spsa_k' = spsa_k + 1
    /\ theta' = theta + delta
    /\ cb_data' = Callback(cb_data, <<3 * (spsa_k + 1), theta + delta, loss, 1, TRUE>>)
    /\ UNCHANGED <<maxiter, qpc, qka_results, optimized_kernel, qsvc>>
    /\ UNCHANGED <<gateVars, unrollVars, fitVars, depVars, docVars, dagVars, evalVars>>

\* The optimizer's loop is over: fit returns its result, which holds the
\* kernel with the trained parameter.
FitReturn ==
    /\ qpc = "fit"
    /\ spsa_k + 1 \notin SpsaRange(maxiter)
    /\ qpc' = "returned"
    /\ qka_results' = Some([quantum_kernel |-> [user_param_binds |-> theta],
                            optimizer_evals |-> spsa_k])
    /\ UNCHANGED <<maxiter, spsa_k, theta, cb_data, optimized_kernel, qsvc>>
    /\ UNCHANGED <<gateVars, unrollVars, fitVars, depVars, docVars, dagVars, evalVars>>

\* optimized_kernel = qka_results.quantum_kernel
ReadQuantumKernel ==
    /\ qka_results # None
    /\ optimized_kernel' = Some(qka_results[1].quantum_kernel)
    /\ UNCHANGED <<maxiter, spsa_k, theta, cb_data, qpc, qka_results, qsvc>>
    /\ UNCHANGED <<gateVars, unrollVars, fitVars, depVars, docVars, dagVars, evalVars>>

\* qsvc = QSVC(quantum_kernel=optimized_kernel)
NewQSVC ==
    /\ optimized_kernel # None
    /\ qsvc' = optimized_kernel
    /\ UNCHANGED <<maxiter, spsa_k, theta, cb_data, qpc, qka_results, optimized_kernel>>
    /\ UNCHANGED <<gateVars, unrollVars, fitVars, depVars, docVars, dagVars, evalVars>>

NextQKT ==
    \/ \E n \in 0..MaxIter : NewSPSA(n)
    \/ QktFit
    \/ \E delta \in Deltas, loss \in Losses : SpsaIterate(delta, loss)
    \/ FitReturn
    \/ ReadQuantumKernel
    \/ NewQSVC

\* What holds of the training at every moment: fit has returned only after
\* maxiter iterations, with one entry per iteration in each list of the
\* callback; the trained kernel is read, and given to QSVC, only after fit
\* has returned.
TrainingInOrder ==
    /\ qpc = "fit" => \A i \in 1..5 : Len(cb_data[i]) = spsa_k
    /\ qpc = "returned"
          => /\ spsa_k = maxiter
             /\ \A i \in 1..5 : Len(cb_data[i]) = maxiter
    /\ qka_results # None <=> qpc = "returned"
    /\ optimized_kernel # None
          => qpc = "returned" /\ optimized_kernel = Some(qka_results[1].quantum_kernel)
    /\ qsvc # None => qsvc = optimized_kernel

Init ==
    /\ heap = <<>>
    /\ instance = 0
    /\ ret = 0
    /\ op = NoOp
    /\ raised = "None"
    /\ xresults = {}
    /\ qc = <<>>
    /\ iset = 0
    /\ body = <<>>
    /\ circuit = <<>>
    /\ max_target_depth = NoLimit
    /\ out = <<>>
    /\ upc = "build"
    /\ warm_start = FALSE
    /\ fit_result = None
    /\ initial_point = None
    /\ last_start = None
    /\ fits = 0
    /\ branch = "none"
    /\ fit_raised = "None"
    /\ dummy = DummyClass(None, None)
    /\ call = NoCall
    /\ emitted = <<>>
    /\ call_result = Return(None)
    /\ doc = <<>>
    /\ deco = None
    /\ new_doc = None
    /\ doc_warned = <<>>
    /\ dag_qc = <<>>
    /\ dag = None
    /\ yielded = <<>>
    /\ model_mode = "dense"
    /\ rotating_frame = FALSE
    /\ rwa_mode = None
    /\ dis_mode = None
    /\ new_mode = None
    /\ eval_raised = "None"
    /\ maxiter = 0
    /\ spsa_k = 0
    /\ theta = 1
    /\ cb_data = NoCallbackData
    /\ qpc = "setup"
    /\ qka_results = None
    /\ optimized_kernel = None
    /\ qsvc = None

SpecGate == Init /\ [][NextGate]_vars

SpecUnroll == Init /\ [][NextUnroll]_vars

SpecFit == Init /\ [][NextFit]_vars

SpecDeprecate == Init /\ [][NextDeprecate]_vars

SpecDocstring == Init /\ [][NextDocstring]_vars

SpecDag == Init /\ [][NextDag]_vars

SpecEval == Init /\ [][NextEval]_vars

\* The notebook's cells run one statement after the other: an optimizer that
\* can make its next iteration makes it, and a fit that can return returns.
SpecQKT ==
    /\ Init
    /\ [][NextQKT]_vars
    /\ WF_vars(\E delta \in Deltas, loss \in Losses : SpsaIterate(delta, loss))
    /\ WF_vars(FitReturn)
====
